---- MODULE Spec2Model ----
(***************************************************************************)
(* A model of UFWController (src/main.js): a stateless wrapper that turns  *)
(* each method call into one or more `sudo ufw ...` command lines handed   *)
(* to child_process.exec, and decides on substrings of the text that comes *)
(* back.                                                                   *)
(*                                                                         *)
(* Strings are TLA+ strings; includes, trim and split are computed on      *)
(* their characters.  Every method call is a state machine whose steps are *)
(* the synchronous stretches of the async function: from the call to the   *)
(* first exec, and from each exec callback to the next exec or to the      *)
(* settled promise.  The child process itself is the environment: it runs  *)
(* against the firewall some time after it was issued (ExecStep and        *)
(* ExecExit), and its callback fires some time after that (the After...    *)
(* actions).                                                               *)
(***************************************************************************)
EXTENDS Integers, Sequences, FiniteSets, TLC

VARIABLES
    pc,       \* pc[c]: where call c is suspended
    req,      \* req[c]: the method called and its arguments
    rest,     \* rest[c]: restore's lines not yet visited by its for-loop
    result,   \* result[c]: how the promise of call c settled
    execs,    \* the child processes issued and not yet called back
    trace,    \* trace[c]: what call c did with the executor and the file, in order
    fw,       \* the firewall the child processes act on
    files,    \* the files restore reads and backup's shell redirect writes
    overlap,  \* history: two calls were in progress at the same time
    added,    \* history: rule strings whose allow/deny/reject command succeeded
    faithful  \* history: every status report so far contained every added rule

vars == <<pc, req, rest, result, execs, trace, fw, files, overlap, added, faithful>>

\* The number of method calls made on the controller in one run.
MaxCalls == 2

Calls == 1..MaxCalls

-----------------------------------------------------------------------------
(* String helpers: String.prototype.includes / trim / split('\n').          *)

Char(s, i) == SubSeq(s, i, i)

\* s.includes(r)
Includes(s, r) ==
    \E i \in 0..(Len(s) - Len(r)) : SubSeq(s, i + 1, i + Len(r)) = r

\* U+000B, the vertical tab: it has no escape, so the string holds the
\* character itself.
VerticalTab == ""

\* The characters trim() strips: the ECMAScript WhiteSpace and LineTerminator
\* code points below U+0080.  (U+00A0, U+FEFF, U+2028, U+2029 and the Unicode
\* space separators are stripped by trim() too; a string here holds one
\* character per byte and cannot hold them.)
IsWhite(ch) == ch \in {" ", "\n", "\t", "\r", "\f", VerticalTab}

RECURSIVE TrimStart(_)
TrimStart(s) ==
    IF Len(s) > 0 /\ IsWhite(Char(s, 1)) THEN TrimStart(Tail(s)) ELSE s

RECURSIVE TrimEnd(_)
TrimEnd(s) ==
    IF Len(s) > 0 /\ IsWhite(Char(s, Len(s)))
    THEN TrimEnd(SubSeq(s, 1, Len(s) - 1))
    ELSE s

\* s.trim()
Trim(s) == TrimEnd(TrimStart(s))

\* The index of the first "\n" of s, or 0.
RECURSIVE NewlineAt(_, _)
NewlineAt(s, i) ==
    IF i > Len(s) THEN 0
    ELSE IF Char(s, i) = "\n" THEN i
    ELSE NewlineAt(s, i + 1)

\* s.split('\n'): always at least one element.
RECURSIVE Split(_)
Split(s) ==
    LET n == NewlineAt(s, 1) IN
    IF n = 0 THEN <<s>>
    ELSE <<SubSeq(s, 1, n - 1)>> \o Split(SubSeq(s, n + 1, Len(s)))

\* A JavaScript string used as a condition: '' is falsy.
Truthy(s) == s # ""

-----------------------------------------------------------------------------
(* The controller's pure parts.                                            *)

\* A faulty runCommand that resolves whether or not exec reported an error.
RunCommandResolveAlways(ok, out) == [kind |-> "return", value |-> Trim(out)]

\* runCommand's exec callback: how the promise settles for a child process that
\* ended without error (ok, its stdout in `out`) or with one (its stderr in `out`).
RunCommandSettle(ok, out) ==
    IF ok
    THEN [kind |-> "return", value |-> Trim(out)]
    ELSE [kind |-> "reject", error |-> "Error: " \o out]

StatusCommand == "sudo ufw status"

\* `${portOrService}${protocol ? '/' + protocol : ''}`
PortRule(portOrService, protocol) ==
    portOrService \o (IF Truthy(protocol) THEN "/" \o protocol ELSE "")

\* A faulty rendering that puts the protocol before the port.
IpRuleProtoFirst(ip, port, protocol) ==
    "from " \o ip
        \o (IF Truthy(protocol) THEN " proto " \o protocol ELSE "")
        \o (IF Truthy(port) THEN " to any port " \o port ELSE "")

\* `from ${ip}${port ? ' to any port ' + port : ''}${protocol ? ' proto ' + protocol : ''}`
IpRule(ip, port, protocol) ==
    "from " \o ip
        \o (IF Truthy(port) THEN " to any port " \o port ELSE "")
        \o (IF Truthy(protocol) THEN " proto " \o protocol ELSE "")

\* Faulty existence checks: equality instead of containment, always, never.
RuleExistsExact(status, rule) == status = rule
RuleExistsAlways(status, rule) == TRUE
RuleExistsNever(status, rule) == FALSE

\* ruleExists, after its status query resolved with `status`.
RuleExists(status, rule) == Includes(status, rule)

\* isEnabled, after its status query resolved with `status`.
IsEnabledOf(status) == Includes(status, "active")

PortOps == {"allow", "deny", "reject"}
IpOps == {"allowFromIp", "denyFromIp"}
RuleOps == PortOps \cup IpOps

\* The verb each rule method puts in its command and in its result's action.
VerbOf(name) ==
    CASE name = "allow" -> "allow"
      [] name = "deny" -> "deny"
      [] name = "reject" -> "reject"
      [] name = "allowFromIp" -> "allow"
      [] name = "denyFromIp" -> "deny"

\* The rule string a rule method renders from its arguments.
RuleOf(r) ==
    IF r.name \in PortOps
    THEN PortRule(r.args[1], r.args[2])
    ELSE IpRule(r.args[1], r.args[2], r.args[3])

\* `sudo ufw <verb> ${rule}`
MutateCommand(name, rule) == "sudo ufw " \o VerbOf(name) \o " " \o rule

SkippedResult(name, rule) ==
    [status |-> "skipped", rule |-> rule, action |-> VerbOf(name),
     message |-> "Rule '" \o rule \o "' already exists."]

SuccessResult(name, rule, out) ==
    [status |-> "success", rule |-> rule, action |-> VerbOf(name), message |-> out]

\* enable, disable, reload, reset, logging: one fixed command, one fixed action.
SimpleOps == {"enable", "disable", "reload", "reset", "logging"}

SimpleCommand(name) ==
    CASE name = "enable" -> "sudo ufw enable"
      [] name = "disable" -> "sudo ufw disable"
      [] name = "reload" -> "sudo ufw reload"
      [] name = "reset" -> "sudo ufw reset"
      [] name = "logging" -> "sudo ufw logging on"

SimpleResult(name, out) == [status |-> "success", action |-> name, message |-> out]

\* status, listRules, ruleExists, isEnabled: one query, its text or a boolean of it;
\* runCommand called directly resolves with the text as well.
QueryOps == {"status", "listRules", "ruleExists", "isEnabled"}

QueryCommand(name) ==
    IF name = "listRules" THEN "sudo ufw status numbered" ELSE StatusCommand

QueryValue(r, out) ==
    CASE r.name = "ruleExists" -> RuleExists(out, r.args[1])
      [] r.name = "isEnabled" -> IsEnabledOf(out)
      [] OTHER -> out

BackupCommand(filePath) == "sudo ufw status > " \o filePath

BackupResult(filePath) ==
    [status |-> "success", action |-> "backup",
     message |-> "Backup saved to " \o filePath \o "."]

\* A faulty priming command that leaves out `allow from any`.
PrimeCommandResetOnly == "sudo ufw reset"

PrimeCommand == "sudo ufw reset && sudo ufw allow from any"

\* A faulty per-line command that keeps the line's surrounding whitespace.
LineCommandUntrimmed(line) == "sudo ufw " \o line

LineCommand(line) == "sudo ufw " \o Trim(line)

RestoreResult(filePath) ==
    [status |-> "success", action |-> "restore",
     message |-> "Restored from " \o filePath \o "."]

\* restore's for-loop: the lines left from the first one whose trim() is truthy.
RECURSIVE SkipBlank(_)
SkipBlank(lines) ==
    IF lines = <<>> \/ Truthy(Trim(Head(lines))) THEN lines
    ELSE SkipBlank(Tail(lines))


\* A faulty loop that swallows a line's failure and goes on.
LineAbortsNever(s) == FALSE

\* restore's `await this.runCommand(...)` inside the loop: a rejected promise
\* throws out of the loop and out of restore.
LineAborts(s) == s.kind = "reject"

\* A faulty loop that does not await: every remaining non-blank line at once.
LoopBatchAll(lines) == SelectSeq(lines, LAMBDA l : Truthy(Trim(l)))

\* The lines restore's for-loop turns into commands before it next suspends:
\* it awaits every command, so the first non-blank line only.
LoopBatch(lines) ==
    LET l == SkipBlank(lines) IN
    IF l = <<>> THEN <<>> ELSE <<Head(l)>>

\* The lines left for the loop after that batch.
LoopRest(lines) ==
    LET l == SkipBlank(lines) IN
    IF l = <<>> THEN <<>> ELSE SubSeq(l, Len(LoopBatch(lines)) + 1, Len(l))

-----------------------------------------------------------------------------
(* The environment: the arguments callers pass, the ufw binary behind      *)
(* exec, and the file system.                                              *)

Targets == {"80", "22"}
Protocols == {"", "tcp"}
Ips == {"10.0.0.5"}
Ports == {"", "8080"}
Paths == {"backup.rules", "ws.rules", "x.rules"}
DirectCommands == {"sudo ufw allow 443/tcp", "sudo ufw version"}
QueriedRules == {"80/tcp", "22"}

Requests ==
    [name : PortOps, args : {<<t, p>> : t \in Targets, p \in Protocols}]
    \cup [name : IpOps, args : {<<i, q, p>> : i \in Ips, q \in Ports, p \in Protocols}]

NoRequest == [name |-> "none", args |-> <<>>]
NoResult == [kind |-> "none"]

BackupFile == "allow 80/tcp\n\n  deny 22  \nreject 443"
\* A rules file whose lines end in, or consist of, form feeds and vertical tabs.
WhitespaceFile ==
    "allow 80/tcp\f" \o VerticalTab \o "\n" \o VerticalTab \o "\f\ndeny 22" \o VerticalTab

StartsWith(s, p) == Len(s) >= Len(p) /\ SubSeq(s, 1, Len(p)) = p
After(s, p) == SubSeq(s, Len(p) + 1, Len(s))

RECURSIVE JoinLines(_)
JoinLines(lines) ==
    IF lines = <<>> THEN "" ELSE Head(lines) \o "\n" \o JoinLines(Tail(lines))

\* What `ufw status` prints: a disabled firewall lists no rules.
ReportText(f) ==
    IF f.enabled
    THEN "Status: active\n\n" \o JoinLines(f.lines)
    ELSE "Status: inactive\n"

AddLine(f, line) ==
    IF \E i \in 1..Len(f.lines) : f.lines[i] = line
    THEN f
    ELSE [f EXCEPT !.lines = Append(@, line)]

IsAdd(cmd) ==
    \/ StartsWith(cmd, "sudo ufw allow ")
    \/ StartsWith(cmd, "sudo ufw deny ")
    \/ StartsWith(cmd, "sudo ufw reject ")

\* The firewall after the ufw process `cmd` ran without error.
Effect(f, cmd) ==
    CASE cmd = "sudo ufw enable" -> [f EXCEPT !.enabled = TRUE]
      [] cmd = "sudo ufw disable" -> [f EXCEPT !.enabled = FALSE]
      [] cmd = "sudo ufw reset" -> [enabled |-> FALSE, lines |-> <<>>]
      [] StartsWith(cmd, "sudo ufw allow ") ->
            AddLine(f, After(cmd, "sudo ufw allow ") \o " ALLOW")
      [] StartsWith(cmd, "sudo ufw deny ") ->
            AddLine(f, After(cmd, "sudo ufw deny ") \o " DENY")
      [] StartsWith(cmd, "sudo ufw reject ") ->
            AddLine(f, After(cmd, "sudo ufw reject ") \o " REJECT")
      [] OTHER -> f

IsStatus(cmd) == cmd \in {StatusCommand, "sudo ufw status numbered"}
IsRedirect(cmd) == StartsWith(cmd, "sudo ufw status > ")

\* Command lines the shell runs in two steps that other commands can come
\* between: `a && b` is two processes, `a > file` truncates the file before a runs.
TwoStep(cmd) == IsRedirect(cmd) \/ cmd = PrimeCommand

\* The process that ends command line `cmd`.
LastProcess(cmd) == IF cmd = PrimeCommand THEN "sudo ufw allow from any" ELSE cmd

Stdout(f, cmd) ==
    CASE IsStatus(cmd) -> ReportText(f)
      [] IsRedirect(cmd) -> ""
      [] cmd = PrimeCommand -> "ok\nRule added\n"
      [] IsAdd(cmd) -> "Rule added\n"
      [] OTHER -> "ok\n"

Stderr == "ERROR: failed\n"

ReadError(filePath) == "ENOENT: no such file or directory, open '" \o filePath \o "'"

-----------------------------------------------------------------------------
(* State.                                                                  *)

Event(t, cmd, out, seen) == [t |-> t, cmd |-> cmd, out |-> out, seen |-> seen]

\* A child process that ended: its callback can run.
HasEnded(e) == e.phase \in {"ok", "fail"}

\* The other calls whose status query has ended and whose callback has not run.
Pending(c) ==
    {d \in Calls \ {c} :
        pc[d] = "awaitStatus" /\ \E e \in execs : e.call = d /\ HasEnded(e)}

IssueEvent(c, cmd) == Event("issue", cmd, "", Pending(c))

Exec(c, cmd) == [call |-> c, cmd |-> cmd, phase |-> "running", out |-> ""]

\* The event a settled runCommand promise leaves in the trace:
\* t is how the child process ended ("ok" or "fail"), out what the promise
\* settled with.
SettledEvent(e, s) ==
    Event(e.phase, e.cmd, IF s.kind = "return" THEN s.value ELSE s.error, {})

InProgress(c) == pc[c] \notin {"idle", "done"}

Init ==
    /\ pc = [c \in Calls |-> "idle"]
    /\ req = [c \in Calls |-> NoRequest]
    /\ rest = [c \in Calls |-> <<>>]
    /\ result = [c \in Calls |-> NoResult]
    /\ execs = {}
    /\ trace = [c \in Calls |-> <<>>]
    /\ fw \in [enabled : BOOLEAN, lines : {<<>>, <<"8080/tcp ALLOW">>}]
    /\ files = [p \in Paths |->
                 CASE p = "backup.rules" -> [exists |-> TRUE, text |-> BackupFile]
                   [] p = "ws.rules" -> [exists |-> TRUE, text |-> WhitespaceFile]
                   [] OTHER -> [exists |-> FALSE, text |-> ""]]
    /\ overlap = FALSE
    /\ added = {}
    /\ faithful = TRUE

-----------------------------------------------------------------------------
(* A call: the method runs synchronously up to its first exec.             *)

Start(c, r, cmd, where) ==
    /\ pc[c] = "idle"
    /\ \A d \in Calls : d < c => pc[d] # "idle"
    /\ pc' = [pc EXCEPT ![c] = where]
    /\ req' = [req EXCEPT ![c] = r]
    /\ execs' = execs \cup {Exec(c, cmd)}
    /\ trace' = [trace EXCEPT ![c] = <<IssueEvent(c, cmd)>>]
    /\ overlap' = (overlap \/ \E d \in Calls : InProgress(d))
    /\ UNCHANGED <<rest, result, fw, files, added, faithful>>

\* allow, deny, reject, allowFromIp, denyFromIp: ruleExists(rule) -> status().
CallRule(c) ==
    \E r \in Requests : Start(c, r, StatusCommand, "awaitStatus")

\* enable, disable, reload, reset, logging.
CallSimple(c) ==
    \E n \in SimpleOps :
        Start(c, [name |-> n, args |-> <<>>], SimpleCommand(n), "awaitCmd")

\* status, listRules, isEnabled, ruleExists.
CallQuery(c) ==
    \E n \in QueryOps, q \in QueriedRules :
        Start(c, [name |-> n, args |-> IF n = "ruleExists" THEN <<q>> ELSE <<>>],
              QueryCommand(n), "awaitCmd")

\* runCommand called by the caller itself, with any command line.
CallRunCommand(c) ==
    \E cmd \in DirectCommands :
        Start(c, [name |-> "runCommand", args |-> <<cmd>>], cmd, "awaitCmd")

CallBackup(c) ==
    \E p \in Paths :
        Start(c, [name |-> "backup", args |-> <<p>>], BackupCommand(p), "awaitCmd")

CallRestore(c) ==
    \E p \in Paths :
        Start(c, [name |-> "restore", args |-> <<p>>], PrimeCommand, "awaitPrime")

-----------------------------------------------------------------------------
(* The child process runs: the shell and the ufw processes it starts.       *)

\* The first step of a two-step command line: the shell truncates the
\* redirect's target, or runs `sudo ufw reset`, whose failure ends the line.
ExecStep(e) ==
    /\ e \in execs
    /\ e.phase = "running"
    /\ TwoStep(e.cmd)
    /\ \E ok \in BOOLEAN :
        /\ IsRedirect(e.cmd) => ok
        /\ execs' = (execs \ {e}) \cup
                {[e EXCEPT !.phase = IF ok THEN "mid" ELSE "fail",
                           !.out = IF ok THEN "" ELSE Stderr]}
        /\ fw' = IF ok /\ e.cmd = PrimeCommand
                 THEN Effect(fw, "sudo ufw reset")
                 ELSE fw
        /\ files' = IF IsRedirect(e.cmd)
                    THEN [files EXCEPT ![After(e.cmd, "sudo ufw status > ")] =
                            [exists |-> TRUE, text |-> ""]]
                    ELSE files
    /\ UNCHANGED <<pc, req, rest, result, trace, overlap, added, faithful>>

\* The (last) process of a command line reads or changes the firewall and ends.
ExecExit(e) ==
    /\ e \in execs
    /\ e.phase = IF TwoStep(e.cmd) THEN "mid" ELSE "running"
    /\ \E ok \in BOOLEAN :
        /\ execs' = (execs \ {e}) \cup
                {[e EXCEPT !.phase = IF ok THEN "ok" ELSE "fail",
                           !.out = IF ok THEN Stdout(fw, e.cmd) ELSE Stderr]}
        /\ fw' = IF ok THEN Effect(fw, LastProcess(e.cmd)) ELSE fw
        /\ files' = IF ok /\ IsRedirect(e.cmd)
                    THEN [files EXCEPT ![After(e.cmd, "sudo ufw status > ")] =
                            [exists |-> TRUE, text |-> ReportText(fw)]]
                    ELSE files
        /\ added' = IF ok /\ req[e.call].name \in RuleOps /\ IsAdd(e.cmd)
                    THEN added \cup {RuleOf(req[e.call])}
                    ELSE added
        /\ faithful' = (faithful /\
                (ok /\ IsStatus(e.cmd) =>
                    \A r \in added : Includes(ReportText(fw), r)))
    /\ UNCHANGED <<pc, req, rest, result, trace, overlap>>

-----------------------------------------------------------------------------
(* The exec callback and the stretch of the method that follows it.        *)

Settle(c, evs, res) ==
    /\ pc' = [pc EXCEPT ![c] = "done"]
    /\ result' = [result EXCEPT ![c] = res]
    /\ trace' = [trace EXCEPT ![c] = @ \o evs]

Rejected(s) == [kind |-> "reject", error |-> s.error]
Returned(v) == [kind |-> "return", value |-> v]

\* ruleExists resolved or rejected inside allow/deny/reject/allowFromIp/denyFromIp.
AfterStatus(e) ==
    LET c == e.call
        s == RunCommandSettle(e.phase = "ok", e.out)
        rule == RuleOf(req[c])
        cmd == MutateCommand(req[c].name, rule)
    IN
    /\ e \in execs /\ HasEnded(e) /\ pc[c] = "awaitStatus"
    /\ IF s.kind = "reject"
       THEN /\ Settle(c, <<SettledEvent(e, s)>>, Rejected(s))
            /\ execs' = execs \ {e}
       ELSE IF RuleExists(s.value, rule)
       THEN /\ Settle(c, <<SettledEvent(e, s)>>,
                      Returned(SkippedResult(req[c].name, rule)))
            /\ execs' = execs \ {e}
       ELSE /\ pc' = [pc EXCEPT ![c] = "awaitMutate"]
            /\ trace' = [trace EXCEPT ![c] =
                            @ \o <<SettledEvent(e, s), IssueEvent(c, cmd)>>]
            /\ execs' = (execs \ {e}) \cup {Exec(c, cmd)}
            /\ UNCHANGED result
    /\ UNCHANGED <<req, rest, fw, files, overlap, added, faithful>>

\* The mutating command of a rule method resolved or rejected.
AfterMutate(e) ==
    LET c == e.call
        s == RunCommandSettle(e.phase = "ok", e.out)
    IN
    /\ e \in execs /\ HasEnded(e) /\ pc[c] = "awaitMutate"
    /\ Settle(c, <<SettledEvent(e, s)>>,
              IF s.kind = "reject" THEN Rejected(s)
              ELSE Returned(SuccessResult(req[c].name, RuleOf(req[c]), s.value)))
    /\ execs' = execs \ {e}
    /\ UNCHANGED <<req, rest, fw, files, overlap, added, faithful>>

\* The single command of a lifecycle method, a query, backup or runCommand.
SingleValue(r, out) ==
    CASE r.name \in SimpleOps -> SimpleResult(r.name, out)
      [] r.name \in QueryOps -> QueryValue(r, out)
      [] r.name = "backup" -> BackupResult(r.args[1])
      [] r.name = "runCommand" -> out

AfterSingle(e) ==
    LET c == e.call
        s == RunCommandSettle(e.phase = "ok", e.out)
    IN
    /\ e \in execs /\ HasEnded(e) /\ pc[c] = "awaitCmd"
    /\ Settle(c, <<SettledEvent(e, s)>>,
              IF s.kind = "reject" THEN Rejected(s)
              ELSE Returned(SingleValue(req[c], s.value)))
    /\ execs' = execs \ {e}
    /\ UNCHANGED <<req, rest, fw, files, overlap, added, faithful>>

\* restore's for-loop from `lines` on, after the events `evs`: the next awaited
\* command, or the return after the last line.
Loop(c, e, evs, lines) ==
    LET batch == LoopBatch(lines)
        issues == [i \in 1..Len(batch) |-> IssueEvent(c, LineCommand(batch[i]))]
    IN
    IF batch = <<>>
    THEN /\ Settle(c, evs, Returned(RestoreResult(req[c].args[1])))
         /\ execs' = execs \ {e}
         /\ rest' = [rest EXCEPT ![c] = <<>>]
    ELSE /\ pc' = [pc EXCEPT ![c] = "awaitLine"]
         /\ trace' = [trace EXCEPT ![c] = @ \o evs \o issues]
         /\ execs' = (execs \ {e}) \cup
                {Exec(c, LineCommand(batch[i])) : i \in 1..Len(batch)}
         /\ rest' = [rest EXCEPT ![c] = LoopRest(lines)]
         /\ UNCHANGED result

\* restore after its priming command: readFileSync, split, the loop's first turn.
AfterPrime(e) ==
    LET c == e.call
        s == RunCommandSettle(e.phase = "ok", e.out)
        path == req[c].args[1]
    IN
    /\ e \in execs /\ HasEnded(e) /\ pc[c] = "awaitPrime"
    /\ IF s.kind = "reject"
       THEN /\ Settle(c, <<SettledEvent(e, s)>>, Rejected(s))
            /\ execs' = execs \ {e}
            /\ UNCHANGED rest
       ELSE IF ~files[path].exists
       THEN /\ Settle(c, <<SettledEvent(e, s), Event("readfail", path, "", {})>>,
                      [kind |-> "reject", error |-> ReadError(path)])
            /\ execs' = execs \ {e}
            /\ UNCHANGED rest
       ELSE Loop(c, e,
                 <<SettledEvent(e, s), Event("read", path, files[path].text, {})>>,
                 Split(files[path].text))
    /\ UNCHANGED <<req, fw, files, overlap, added, faithful>>

\* restore after one line's command.
AfterLine(e) ==
    LET c == e.call
        s == RunCommandSettle(e.phase = "ok", e.out)
    IN
    /\ e \in execs /\ HasEnded(e) /\ pc[c] = "awaitLine"
    /\ IF LineAborts(s)
       THEN /\ Settle(c, <<SettledEvent(e, s)>>, Rejected(s))
            /\ execs' = execs \ {e}
            /\ UNCHANGED rest
       ELSE Loop(c, e, <<SettledEvent(e, s)>>, rest[c])
    /\ UNCHANGED <<req, fw, files, overlap, added, faithful>>

Next ==
    \/ \E c \in Calls : CallRule(c)
    \/ \E c \in Calls : CallSimple(c)
    \/ \E c \in Calls : CallQuery(c)
    \/ \E c \in Calls : CallRunCommand(c)
    \/ \E c \in Calls : CallBackup(c)
    \/ \E c \in Calls : CallRestore(c)
    \/ \E e \in execs : ExecStep(e)
    \/ \E e \in execs : ExecExit(e)
    \/ \E e \in execs : AfterStatus(e)
    \/ \E e \in execs : AfterMutate(e)
    \/ \E e \in execs : AfterSingle(e)
    \/ \E e \in execs : AfterPrime(e)
    \/ \E e \in execs : AfterLine(e)

Spec == Init /\ [][Next]_vars

-----------------------------------------------------------------------------
(* What the properties below read off a call's trace.                      *)

Issued(tr) == SelectSeq(tr, LAMBDA ev : ev.t = "issue")
Ended(tr) == SelectSeq(tr, LAMBDA ev : ev.t \in {"ok", "fail"})
CmdsOf(tr) == [i \in 1..Len(Issued(tr)) |-> Issued(tr)[i].cmd]
InFlight(c) == {e \in execs : e.call = c}

\* The rule string the documentation gives for each argument list in use.
CanonicalRule(r) ==
    CASE r.args = <<"80", "">> -> "80"
      [] r.args = <<"80", "tcp">> -> "80/tcp"
      [] r.args = <<"22", "">> -> "22"
      [] r.args = <<"22", "tcp">> -> "22/tcp"
      [] r.args = <<"10.0.0.5", "", "">> -> "from 10.0.0.5"
      [] r.args = <<"10.0.0.5", "8080", "">> -> "from 10.0.0.5 to any port 8080"
      [] r.args = <<"10.0.0.5", "", "tcp">> -> "from 10.0.0.5 proto tcp"
      [] r.args = <<"10.0.0.5", "8080", "tcp">> ->
            "from 10.0.0.5 to any port 8080 proto tcp"

CanonicalVerb(r) ==
    CASE r.name \in {"allow", "allowFromIp"} -> "allow"
      [] r.name \in {"deny", "denyFromIp"} -> "deny"
      [] r.name = "reject" -> "reject"

\* Call c is a rule method whose status query came back with a report.
GotReport(c) ==
    /\ req[c].name \in RuleOps
    /\ Len(trace[c]) >= 2
    /\ trace[c][2].t = "ok"

ReportOf(c) == trace[c][2].out
SawPresent(c) == GotReport(c) /\ Includes(ReportOf(c), CanonicalRule(req[c]))
SawAbsent(c) == GotReport(c) /\ ~Includes(ReportOf(c), CanonicalRule(req[c]))

IsSkipped(c) ==
    /\ result[c].kind = "return"
    /\ req[c].name \in RuleOps
    /\ result[c].value.status = "skipped"

-----------------------------------------------------------------------------
\* C1: a rule method whose status report contains the canonical rule string
\* returns {status 'skipped', rule, action <verb>, message "Rule '<rule>'
\* already exists."} and its only executor invocation is the status query.
C1_SkipWhenPresent ==
    \A c \in Calls :
        SawPresent(c) =>
            /\ pc[c] = "done"
            /\ result[c] =
                 [kind |-> "return",
                  value |-> [status |-> "skipped",
                             rule |-> CanonicalRule(req[c]),
                             action |-> CanonicalVerb(req[c]),
                             message |-> "Rule '" \o CanonicalRule(req[c])
                                            \o "' already exists."]]
            /\ CmdsOf(trace[c]) = <<"sudo ufw status">>
            /\ InFlight(c) = {}

\* A denyFromIp call skipped because the report holds its rule string.
C1_Witness ==
    \E c \in Calls :
        /\ req[c].name = "denyFromIp"
        /\ SawPresent(c)
        /\ IsSkipped(c)

\* C2: a rule method whose status report lacks the canonical rule string
\* issues, after the status query, exactly one command 'sudo ufw <verb> <rule>',
\* and when that succeeds returns status 'success' with the executor's output.
C2_MutateWhenAbsent ==
    \A c \in Calls :
        SawAbsent(c) =>
            LET tr == trace[c]
                cmd == "sudo ufw " \o CanonicalVerb(req[c]) \o " "
                          \o CanonicalRule(req[c])
            IN
            /\ Len(tr) >= 3
            /\ tr[1].t = "issue" /\ tr[1].cmd = "sudo ufw status"
            /\ tr[3].t = "issue" /\ tr[3].cmd = cmd
            /\ Len(Issued(tr)) = 2
            /\ (Len(tr) = 3) => (\E e \in execs : InFlight(c) = {e} /\ e.cmd = cmd)
            /\ (Len(tr) >= 4 /\ tr[4].t = "ok") =>
                    /\ Len(tr) = 4
                    /\ pc[c] = "done"
                    /\ tr[4].out = "Rule added"
                    /\ result[c] =
                         [kind |-> "return",
                          value |-> [status |-> "success",
                                     rule |-> CanonicalRule(req[c]),
                                     action |-> CanonicalVerb(req[c]),
                                     message |-> tr[4].out]]

\* An allowFromIp call with port and protocol that added its rule.
C2_Witness ==
    \E c \in Calls :
        /\ req[c] = [name |-> "allowFromIp", args |-> <<"10.0.0.5", "8080", "tcp">>]
        /\ SawAbsent(c)
        /\ Len(trace[c]) = 4
        /\ trace[c][4].t = "ok"
        /\ result[c].kind = "return"

\* C3: whatever the method, a failed executor invocation is the last thing the
\* call does: the promise is rejected with the executor's error text, nothing
\* is returned, and no further command (no retry) is issued; a rule method
\* whose status query fails issues no mutating command.
C3_FailureRejects ==
    \A c \in Calls :
        \A i \in 1..Len(trace[c]) :
            trace[c][i].t = "fail" =>
                /\ i = Len(trace[c])
                /\ pc[c] = "done"
                /\ result[c] = [kind |-> "reject", error |-> "Error: " \o Stderr]
                /\ InFlight(c) = {}
                /\ trace[c][i - 1].t = "issue"
                /\ trace[c][i - 1].cmd = trace[c][i].cmd
                /\ Len(Issued(trace[c])) = Len(Ended(trace[c]))
                /\ (req[c].name \in RuleOps /\ i = 2) =>
                        CmdsOf(trace[c]) = <<"sudo ufw status">>

\* A deny call rejected because its status query failed.
C3_Witness ==
    \E c \in Calls :
        /\ req[c].name = "deny"
        /\ Len(trace[c]) = 2
        /\ trace[c][2].t = "fail"
        /\ result[c].kind = "reject"

\* The commands the documentation expects restore to issue for a file's text:
\* one per non-blank line, trimmed, in file order.
RECURSIVE NonBlankCmds(_)
NonBlankCmds(lines) ==
    IF lines = <<>> THEN <<>>
    ELSE IF Trim(Head(lines)) = "" THEN NonBlankCmds(Tail(lines))
    ELSE <<"sudo ufw " \o Trim(Head(lines))>> \o NonBlankCmds(Tail(lines))

ExpectedCmds(text) ==
    IF text = "allow 80/tcp\n\n  deny 22  \nreject 443"
    THEN <<"sudo ufw allow 80/tcp", "sudo ufw deny 22", "sudo ufw reject 443">>
    ELSE IF text = "allow 80/tcp\f" \o VerticalTab \o "\n" \o VerticalTab \o "\f\ndeny 22" \o VerticalTab
    THEN <<"sudo ufw allow 80/tcp", "sudo ufw deny 22">>
    ELSE NonBlankCmds(Split(text))

Priming == "sudo ufw reset && sudo ufw allow from any"

\* C4: a restore that returns has issued the priming command, read the file,
\* and then one command 'sudo ufw <trimmed line>' per non-blank line in file
\* order, each issued only once every earlier command has completed; it returns
\* status 'success'.  At any moment a restore issues a command only when
\* everything it issued before has completed.
C4_RestoreSequential ==
    \A c \in Calls :
        req[c].name = "restore" =>
            LET tr == trace[c] IN
            /\ \A i \in 2..Len(tr) :
                  tr[i].t = "issue" =>
                      /\ tr[i - 1].t \in {"ok", "read"}
                      /\ Len(Issued(SubSeq(tr, 1, i - 1)))
                            = Len(Ended(SubSeq(tr, 1, i - 1)))
            /\ result[c].kind = "return" =>
                  /\ Len(tr) >= 3
                  /\ tr[1] = Event("issue", Priming, "", tr[1].seen)
                  /\ tr[2].t = "ok" /\ tr[2].cmd = Priming
                  /\ tr[3].t = "read" /\ tr[3].cmd = req[c].args[1]
                  /\ LET exp == ExpectedCmds(tr[3].out) IN
                     /\ Len(tr) = 3 + 2 * Len(exp)
                     /\ \A k \in 1..Len(exp) :
                           /\ tr[2 + 2 * k].t = "issue"
                           /\ tr[2 + 2 * k].cmd = exp[k]
                           /\ tr[3 + 2 * k].t = "ok"
                           /\ tr[3 + 2 * k].cmd = exp[k]
                  /\ InFlight(c) = {}
                  /\ result[c].value =
                        [status |-> "success", action |-> "restore",
                         message |-> "Restored from " \o req[c].args[1] \o "."]

\* A restore of the four-line file (one line blank) that returned after its
\* three commands.
C4_Witness ==
    \E c \in Calls :
        /\ req[c].name = "restore"
        /\ result[c].kind = "return"
        /\ CmdsOf(trace[c]) = <<Priming, "sudo ufw allow 80/tcp",
                                "sudo ufw deny 22", "sudo ufw reject 443">>

\* C5: when the command of a restore line fails, restore is rejected with that
\* failure, the failed command is the last one issued, and the commands issued
\* are the priming command and the commands of the lines up to the failed one,
\* nothing else (no rollback).
C5_RestoreAborts ==
    \A c \in Calls :
        req[c].name = "restore" =>
            LET tr == trace[c] IN
            \A i \in 4..Len(tr) :
                tr[i].t = "fail" =>
                    /\ i = Len(tr)
                    /\ pc[c] = "done"
                    /\ result[c] = [kind |-> "reject", error |-> "Error: " \o Stderr]
                    /\ InFlight(c) = {}
                    /\ tr[3].t = "read"
                    /\ LET k == Len(Issued(tr)) - 1
                           exp == ExpectedCmds(tr[3].out)
                       IN
                       /\ k \in 1..Len(exp)
                       /\ CmdsOf(tr) = <<Priming>> \o SubSeq(exp, 1, k)
                       /\ tr[i].cmd = exp[k]
                       /\ Len(Ended(tr)) = k + 1
                       /\ \A j \in 1..(i - 1) : tr[j].t # "fail"

\* A restore whose second of three line commands failed.
C5_Witness ==
    \E c \in Calls :
        /\ req[c].name = "restore"
        /\ result[c].kind = "reject"
        /\ CmdsOf(trace[c]) = <<Priming, "sudo ufw allow 80/tcp", "sudo ufw deny 22">>
        /\ trace[c][Len(trace[c])].t = "fail"

\* C6: isEnabled returns true exactly when the status report is that of an
\* active firewall ('Status: active'), false for 'Status: inactive'.
C6_IsEnabledIffActive ==
    \A c \in Calls :
        (req[c].name = "isEnabled" /\ result[c].kind = "return") =>
            (result[c].value <=> StartsWith(trace[c][2].out, "Status: active"))

Mutating(cmd) == ~IsStatus(cmd) /\ ~IsRedirect(cmd)

\* C7, as amended: no call has more than one executor invocation in flight.
C7_OnePerCall ==
    \A c \in Calls : Cardinality(InFlight(c)) <= 1

\* Two calls in progress at once, one a restore inside its loop, each with its
\* one invocation in flight.
C7_Witness ==
    \E c, d \in Calls :
        /\ c # d
        /\ req[c].name = "restore" /\ pc[c] = "awaitLine"
        /\ Cardinality(InFlight(c)) = 1
        /\ Cardinality(InFlight(d)) = 1

\* C7, as stated: besides, no two firewall-mutating commands are in flight at
\* the same time.
C7_NoParallelMutation ==
    /\ C7_OnePerCall
    /\ Cardinality({e \in execs : e.phase = "running" /\ Mutating(e.cmd)}) <= 1

MutateIssued(c) ==
    /\ Len(trace[c]) >= 3
    /\ trace[c][3].t = "issue"
    /\ trace[c][3].cmd = "sudo ufw " \o CanonicalVerb(req[c]) \o " "
                            \o CanonicalRule(req[c])

\* The report the status query of rule call c ended with lacks the rule,
\* whether or not its callback has run yet.
StatusEndedAbsent(c) ==
    \/ SawAbsent(c)
    \/ /\ req[c].name \in RuleOps
       /\ pc[c] = "awaitStatus"
       /\ \E e \in InFlight(c) :
             e.phase = "ok" /\ ~Includes(Trim(e.out), CanonicalRule(req[c]))

\* C8: the check and the mutation are not atomic.  Whenever the status queries
\* of two calls for the same rule have both ended with the rule absent, neither
\* call returns 'skipped' and each issues its mutating command as soon as its
\* callback runs, whatever the other call has done to the firewall meanwhile.
C8_BothPassCheck ==
    \A c, d \in Calls :
        (/\ c # d
         /\ req[c].name \in RuleOps /\ req[d].name \in RuleOps
         /\ CanonicalRule(req[c]) = CanonicalRule(req[d])
         /\ StatusEndedAbsent(c) /\ StatusEndedAbsent(d)) =>
            /\ ~IsSkipped(c)
            /\ pc[c] # "awaitStatus" => MutateIssued(c)

\* Two allow calls for 80/tcp: when the first issued its mutating command the
\* status query of the second had already ended (its callback pending), both
\* reports lacked the rule, and both calls got their rule added.
C8_Witness ==
    \E c, d \in Calls :
        /\ c # d
        /\ req[c] = [name |-> "allow", args |-> <<"80", "tcp">>]
        /\ req[d] = req[c]
        /\ SawAbsent(c) /\ SawAbsent(d)
        /\ MutateIssued(c) /\ MutateIssued(d)
        /\ d \in trace[c][3].seen
        /\ result[c].kind = "return" /\ result[c].value.status = "success"
        /\ result[d].kind = "return" /\ result[d].value.status = "success"

\* The calls made so far are allow/deny/reject calls with one (target, protocol),
\* made one after the other, and every status report contained every rule added.
OneRuleInSequence ==
    /\ ~overlap
    /\ faithful
    /\ \A c \in Calls : req[c].name \in PortOps \cup {"none"}
    /\ \A c, d \in Calls :
          (req[c].name \in PortOps /\ req[d].name \in PortOps) =>
              req[c].args = req[d].args

MutationsIssued(c) ==
    Len(SelectSeq(trace[c], LAMBDA ev : ev.t = "issue" /\ Mutating(ev.cmd)))
MutationsOk(c) ==
    Len(SelectSeq(trace[c], LAMBDA ev : ev.t = "ok" /\ Mutating(ev.cmd)))
MutationsFailed(c) ==
    Len(SelectSeq(trace[c], LAMBDA ev : ev.t = "fail" /\ Mutating(ev.cmd)))

RECURSIVE SumOver(_, _)
SumOver(F(_), S) ==
    IF S = {} THEN 0
    ELSE LET x == CHOOSE y \in S : TRUE IN F(x) + SumOver(F, S \ {x})

\* The existence check ignores the verb: a call that follows a successful
\* allow/deny/reject of the same (target, protocol) is skipped whatever its verb.
VerbBlind ==
    \A c, d \in Calls :
        (c < d /\ MutationsOk(c) = 1 /\ Len(trace[d]) >= 2 /\ trace[d][2].t = "ok") =>
            /\ IsSkipped(d)
            /\ MutationsIssued(d) = 0

\* C10, as amended: in such a sequence a later call is skipped whatever its
\* verb once the rule was added, at most one mutating command has succeeded,
\* and a mutating command is issued again only after every earlier one failed.
C10_AtMostOneAdded ==
    OneRuleInSequence =>
        /\ VerbBlind
        /\ SumOver(MutationsOk, Calls) <= 1
        /\ SumOver(MutationsIssued, Calls) <= SumOver(MutationsFailed, Calls) + 1

\* allow 80/tcp added the rule; the deny 80/tcp that followed was skipped.
C10_Witness ==
    /\ OneRuleInSequence
    /\ \E c, d \in Calls :
          /\ req[c] = [name |-> "allow", args |-> <<"80", "tcp">>]
          /\ req[d] = [name |-> "deny", args |-> <<"80", "tcp">>]
          /\ MutationsOk(c) = 1
          /\ IsSkipped(d)

\* C10, as stated: in such a sequence at most one mutating command has been
\* issued for the rule string.
C10_AtMostOneIssued ==
    OneRuleInSequence =>
        /\ VerbBlind
        /\ SumOver(MutationsIssued, Calls) <= 1

\* C9: restore reads the file only after its priming command completed; an
\* unreadable file rejects restore with the read failure after that one command
\* and nothing else; a failed priming command means no read and no line command.
C9_PrimeBeforeRead ==
    \A c \in Calls :
        req[c].name = "restore" =>
            LET tr == trace[c] IN
            /\ Len(tr) >= 1 => tr[1].t = "issue" /\ tr[1].cmd = Priming
            /\ \A i \in 1..Len(tr) :
                  tr[i].t \in {"read", "readfail"} =>
                      /\ i = 3
                      /\ tr[2].t = "ok" /\ tr[2].cmd = Priming
            /\ (Len(tr) >= 3 /\ tr[3].t = "readfail") =>
                  /\ Len(tr) = 3
                  /\ pc[c] = "done"
                  /\ result[c] =
                        [kind |-> "reject",
                         error |-> "ENOENT: no such file or directory, open '"
                                      \o req[c].args[1] \o "'"]
                  /\ CmdsOf(tr) = <<Priming>>
                  /\ InFlight(c) = {}
            /\ (Len(tr) >= 2 /\ tr[2].t = "fail") =>
                  /\ Len(tr) = 2
                  /\ pc[c] = "done"
                  /\ result[c].kind = "reject"
                  /\ InFlight(c) = {}

\* One restore rejected by the missing file after priming, another rejected by
\* its priming command.
C9_Witness ==
    \E c, d \in Calls :
        /\ req[c].name = "restore" /\ req[d].name = "restore"
        /\ Len(trace[c]) = 3 /\ trace[c][3].t = "readfail"
        /\ result[c].kind = "reject"
        /\ Len(trace[d]) = 2 /\ trace[d][2].t = "fail"
        /\ result[d].kind = "reject"

====
